---- MODULE Spec2Model ----
(***************************************************************************)
(* Model of ac_dashboard_mqtt.py: the MQTT callbacks (network thread) that  *)
(* put messages on a queue.Queue, and the dashboard's timer slot on_update  *)
(* (GUI thread) that drains the queue, derives the relay state, keeps the   *)
(* bounded plot history and inserts one row per reading into sqlite.        *)
(*                                                                          *)
(* Temperatures and humidities are integers in hundredths of a unit (the    *)
(* simulator rounds to two decimals), so TEMP_THRESHOLD = 30.0 is 3000.     *)
(* The wall clock is a counter of seconds; a day has DayLen seconds.        *)
(*                                                                          *)
(* The GUI thread is at pc = "idle" between two timer slots, "drain" at the *)
(* head of process_mqtt_queue's while loop, "insert" before the db.insert   *)
(* of line 240, "raised" when an exception has left on_update, and "dead"   *)
(* when the process was aborted.  The network thread's callbacks and the    *)
(* clock interleave with these steps.  closeEvent runs on the GUI thread    *)
(* between two timer slots (pc = "close" while it runs).  The click handler *)
(* manual_button_pressed is not an action of this model: a button_pressed   *)
(* message arrives through on_message.  show_last_records changes no state; *)
(* the query it runs is the operator GetLastRecords.                        *)
(***************************************************************************)
EXTENDS Integers, Sequences, FiniteSets, TLC

\* ------------------------------------------------------------------ bounds
\* Events of the environment in one run: messages delivered, connection
\* callbacks, publish errors, seconds elapsed, the window being closed.
MaxEvents == 3
\* Seconds per day of the model's clock (86400 in reality).
DayLen == 2
\* self.max_points, scaled down from 200 so that eviction is reached.
max_points == 2
\* Rows in the table when DataManager is exercised on its own.
MaxRows == 3

\* --------------------------------------------------------------- constants
TEMP_THRESHOLD == 3000

\* ----------------------------------------------------------- Python values
PyNone == [py |-> "None", v |-> 0]
PyStr == [py |-> "str", v |-> 0]
PyAbsent == [py |-> "absent", v |-> 0]
PyNum(n) == [py |-> "num", v |-> n]
PyBool(b) == [py |-> "bool", v |-> IF b THEN 1 ELSE 0]

\* bool(x): None and 0/False are falsy, a non-empty string is truthy.
Truthy(x) == CASE x.py = "None" -> FALSE
               [] x.py = "absent" -> FALSE
               [] x.py = "str" -> TRUE
               [] OTHER -> x.v # 0

\* f"{x:.1f}" and x >= TEMP_THRESHOLD are defined for numbers only.
IsNumber(x) == x.py \in {"num", "bool"}

\* int(x) raises ValueError for a non-numeric string, TypeError for None.
IntRaises(x) == ~IsNumber(x)
IntOf(x) == x.v

\* f"{x:.1f}": x rounded to one decimal (tenths), here in tenths of a unit.
\* The model's values avoid exact halves, whose rounding depends on the
\* binary representation.
Fmt1(x) == (x.v + 5) \div 10

\* dict.get(key, default) on the optional key manual_override.
GetOverride(msg) == IF msg.manual_override = PyAbsent THEN PyBool(FALSE)
                    ELSE msg.manual_override

\* ---------------------------------------------------------- message shapes
\* A queued item: a dict (with its "type", "temperature", "humidity",
\* "manual_override" and "event" entries, absent ones as PyNone / PyAbsent /
\* "") or another JSON value (isdict = FALSE).  id is the position of the
\* item in the order of all put() calls; it is not part of the program.
Item(isdict, type, t, h, ov, event) ==
    [isdict |-> isdict, type |-> type, temperature |-> t, humidity |-> h,
     manual_override |-> ov, event |-> event]

SysEvent(event) == Item(TRUE, "sys", PyNone, PyNone, PyAbsent, event)
Sensor(t, h, ov) == Item(TRUE, "sensor", t, h, ov, "")
ButtonPressed == Item(TRUE, "button_pressed", PyNone, PyNone, PyAbsent, "")
RawDict == Item(TRUE, "", PyNone, PyNone, PyAbsent, "raw")
NotADict == Item(FALSE, "", PyNone, PyNone, PyAbsent, "")

\* ------------------------------------------------------------ value domains
TempVals == {2896, 3000}
HumVals == {5004, 6117}
\* The well-formed readings delivered: one below the threshold and one at it,
\* with different humidities.
Readings == {<<2896, 5004>>, <<3000, 6117>>}
\* What simulate_sensor draws: round(random.uniform(20,32),2) and
\* round(random.uniform(30,70),2), one representative each.
SimTemps == {2500}
SimHums == {4500}

\* What the broker can deliver on the (public) topic: JSON text of a record,
\* JSON text of another value, or bytes that json.loads rejects.
Payloads ==
    {[json |-> TRUE, value |-> Sensor(PyNum(r[1]), PyNum(r[2]), PyAbsent)] :
        r \in Readings}
    \cup {[json |-> TRUE, value |-> Sensor(PyNum(2896), PyNum(5004), ov)] :
        ov \in {PyBool(TRUE), PyStr}}
    \cup {[json |-> TRUE, value |-> Sensor(PyNone, PyNum(5004), PyAbsent)]}
    \cup {[json |-> TRUE, value |-> Sensor(PyNum(3000), PyStr, PyAbsent)]}
    \cup {[json |-> TRUE, value |-> v] :
        v \in {ButtonPressed, NotADict}}
    \cup {[json |-> FALSE, value |-> NotADict]}

\* ------------------------------------------------------------------- state
VARIABLES
    mqtt_queue,      \* ACDashboard.mqtt_queue, oldest first
    connected,       \* MqttClientWrapper.connected
    loop_running,    \* the paho network thread was started (loop_start)
    temp, hum,       \* ACDashboard.temp, ACDashboard.hum
    relay_on,        \* ACDashboard.relay_on (a Python value)
    lbl_temp, lbl_hum, relay_indicator,   \* the status widgets
    times, temps, hums,   \* the three deques of the plot history
    db,              \* rows of table sensor_data, in insertion order
    list_logs,       \* the log widget: entries written by log()
    plotted,         \* what update_plot last drew
    now,             \* the wall clock, in seconds
    pc,              \* where the GUI thread is
    msg,             \* process_mqtt_queue's local msg
    put_log, get_log,    \* history: every put(), every get_nowait(), in order
    exc,             \* the exception propagating out of the timer slot, if any
    closing,         \* the calls closeEvent has made so far, in order
    storage_failed,  \* history: an insert has raised sqlite3.Error
    events           \* history: the events of the environment so far

vars == <<mqtt_queue, connected, loop_running, temp, hum, relay_on, lbl_temp,
          lbl_hum, relay_indicator, times, temps, hums, db, list_logs,
          plotted, now, pc, msg, exc, put_log, get_log, closing,
          storage_failed, events>>

\* ------------------------------------------------------------- queue.Queue
\* put() as a stack would do it: the new item goes to the head.
PutFront(q, m) == <<m>> \o q
\* put(): append at the tail, under the queue's mutex.
Put(q, m) == Append(q, m)
\* A queue of capacity 1, on which put() blocks while an item is waiting.
FullAtOne(q) == Len(q) >= 1
\* queue.Queue() has maxsize 0: it is never full, put() never waits for room.
Full(q) == FALSE
\* empty()
Empty(q) == Len(q) = 0
\* get_nowait(): the item at the head, which is removed.
GetItem(q) == Head(q)
GetRest(q) == Tail(q)

\* The next put() of `item`, numbered in put order.
Numbered(item) == [id |-> Len(put_log) + 1, item |-> item]
\* One more event of the environment, while the run's budget allows it.
Event == events < MaxEvents /\ events' = events + 1
Enqueue(item) ==
    /\ ~Full(mqtt_queue)
    /\ mqtt_queue' = Put(mqtt_queue, Numbered(item))
    /\ put_log' = Append(put_log, Numbered(item))

\* ------------------------------------------------------------------- clock
\* datetime.now().strftime("%H:%M:%S"): the time of day only.
HMS(n) == n % DayLen
\* datetime.now().strftime("%Y-%m-%d %H:%M:%S"): the date and the time of day.
YMDHMS(n) == <<n \div DayLen, n % DayLen>>

\* ---------------------------------------------------------- deque(maxlen=N)
\* A list in place of the deque: nothing is ever dropped.
ListAppend(d, x) == Append(d, x)
\* appendleft(x) in place of append(x).
DequeAppendLeft(d, x) ==
    IF Len(d) >= max_points THEN <<x>> \o SubSeq(d, 1, Len(d) - 1)
    ELSE <<x>> \o d
\* append(x) on a full deque drops the item at the left end.
DequeAppend(d, x) ==
    IF Len(d) >= max_points THEN Append(Tail(d), x) ELSE Append(d, x)

\* ---------------------------------------------------------------- logging
\* log(text): one timestamped entry at the end of the log widget.
\* value is the formatted number in the text (0 if none), state the relay
\* state named in it ("" if none).
LogEntry(text, value, state) ==
    [ts |-> YMDHMS(now), text |-> text, value |-> value, state |-> state]
Log(text, value, state) ==
    list_logs' = Append(list_logs, LogEntry(text, value, state))

NoExc == [type |-> "none", line |-> 0]
Raised(type, line) == [type |-> type, line |-> line]

\* ------------------------------------------------------------ relay logic
\* A comparison that excludes the threshold itself.
HighTempStrict(t) == t.v > TEMP_THRESHOLD
\* t >= TEMP_THRESHOLD
HighTemp(t) == t.v >= TEMP_THRESHOLD
\* t>=TEMP_THRESHOLD or msg.get("manual_override", False): Python's `or`
\* yields its right operand, whatever its type, when the left one is False.
\* A relay that, once ON, is only switched off by the button.
AutoRelayLatched(t, m) ==
    IF HighTemp(t) \/ Truthy(relay_on) THEN PyBool(TRUE) ELSE GetOverride(m)
\* A relay controller that remembers an override seen in an earlier reading.
AutoRelaySticky(t, m) ==
    IF HighTemp(t) \/ \E i \in DOMAIN get_log :
                        /\ get_log[i].item.type = "sensor"
                        /\ Truthy(GetOverride(get_log[i].item))
    THEN PyBool(TRUE) ELSE GetOverride(m)
AutoRelay(t, m) == IF HighTemp(t) THEN PyBool(TRUE) ELSE GetOverride(m)
\* A toggle that refuses to switch off while the temperature is high.
ToggleUnlessHot(r) ==
    IF IsNumber(temp) /\ temp.v >= TEMP_THRESHOLD THEN PyBool(TRUE)
    ELSE PyBool(~Truthy(r))
\* not self.relay_on
Toggle(r) == PyBool(~Truthy(r))
\* "background-color: green;" if self.relay_on else "background-color: gray;"
Indicator(r) == IF Truthy(r) THEN "green" ELSE "gray"
\* 'ON' if self.relay_on else 'OFF'
OnOff(r) == IF Truthy(r) THEN "ON" ELSE "OFF"

\* ------------------------------------------------------------ DataManager
\* The table starts empty (a new file) or holds rows of an earlier run (the
\* file is kept).
OldRow == [id |-> 1, timestamp |-> <<0, 0>>, temperature |-> PyNum(2500),
           humidity |-> PyNum(5000), relay_status |-> 0]
PriorTables == {<<>>, <<OldRow>>}
\* AUTOINCREMENT: one more than the largest id ever used (no row is deleted).
NextRowId(table) == IF table = <<>> THEN 1 ELSE table[Len(table)].id + 1
\* insert(timestamp, temp, hum, relay_status)
Insert(table, timestamp, t, h, relay_status) ==
    Append(table, [id |-> NextRowId(table), timestamp |-> timestamp,
                   temperature |-> t, humidity |-> h,
                   relay_status |-> relay_status])

\* The rows of the table as a set (ids are unique).
Rows(table) == {table[i] : i \in DOMAIN table}
\* ORDER BY id: the rows from the smallest id to the largest.
RECURSIVE OrderByIdAsc(_)
OrderByIdAsc(rows) ==
    IF rows = {} THEN <<>>
    ELSE LET r == CHOOSE x \in rows : \A y \in rows : x.id <= y.id
         IN  <<r>> \o OrderByIdAsc(rows \ {r})
\* ORDER BY id DESC: the rows from the largest id to the smallest.
RECURSIVE OrderByIdDesc(_)
OrderByIdDesc(rows) ==
    IF rows = {} THEN <<>>
    ELSE LET r == CHOOSE x \in rows : \A y \in rows : y.id <= x.id
         IN  <<r>> \o OrderByIdDesc(rows \ {r})
\* LIMIT n: the first n rows of the result; a negative n is no limit.
Limit(result, n) ==
    IF n < 0 \/ n >= Len(result) THEN result ELSE SubSeq(result, 1, n)
\* SELECT timestamp, temperature, humidity, relay_status
Columns(r) == <<r.timestamp, r.temperature, r.humidity, r.relay_status>>
\* get_last_records(limit)
GetLastRecords(table, limit) ==
    LET result == Limit(OrderByIdDesc(Rows(table)), limit)
    IN  [k \in 1..Len(result) |-> Columns(result[k])]

\* ------------------------------------------------------------------- Init
\* The state after ACDashboard.__init__, the table apart: the transport's
\* connect() raised (connect_error is queued and loop_start was skipped), or it
\* succeeded and the network thread, started at line 75, has or has not yet
\* run on_connect by the time the constructor returns.
InitDashboard ==
    /\ \/ /\ loop_running = FALSE
          /\ connected = FALSE
          /\ put_log = <<[id |-> 1, item |-> SysEvent("connect_error")]>>
       \/ /\ loop_running = TRUE
          /\ connected = FALSE
          /\ put_log = <<>>
       \/ /\ loop_running = TRUE
          /\ connected = TRUE
          /\ put_log = <<[id |-> 1, item |-> SysEvent("connected")]>>
    /\ mqtt_queue = put_log
    /\ temp = PyNum(2400)
    /\ hum = PyNum(5000)
    /\ relay_on = PyBool(FALSE)
    /\ lbl_temp = Fmt1(PyNum(2400))
    /\ lbl_hum = Fmt1(PyNum(5000))
    /\ relay_indicator = "gray"
    /\ times = <<>>
    /\ temps = <<>>
    /\ hums = <<>>
    /\ list_logs = <<>>
    /\ plotted = <<<<>>, <<>>>>
    /\ now = DayLen
    /\ pc = "idle"
    /\ msg = NotADict
    /\ exc = NoExc
    /\ get_log = <<>>
    /\ closing = <<>>
    /\ storage_failed = FALSE
    /\ events = 0

\* The dashboard starts on the database file an earlier run left.
Init == InitDashboard /\ db = <<OldRow>>

\* The process runs: it was not aborted, and closeEvent, after which the
\* application quits, has not completed.
Alive == pc # "dead" /\ Len(closing) < 3
\* update_timer is started in __init__ and stopped by closeEvent only.
TimerNeverStopped == TRUE
TimerActive == closing = <<>>
\* The sqlite connection is open until closeEvent closes it.
DbOpen == Len(closing) < 3

gui_vars == <<temp, hum, relay_on, lbl_temp, lbl_hum, relay_indicator, times,
              temps, hums, db, list_logs, plotted, pc, msg, exc, get_log,
              closing, storage_failed>>

\* A callback that switches the relay itself.
CallbackSetsRelay ==
    /\ relay_on' = PyBool(TRUE)
    /\ UNCHANGED <<temp, hum, lbl_temp, lbl_hum, relay_indicator, times, temps,
                   hums, db, list_logs, plotted, pc, msg, exc, get_log,
                   closing, storage_failed>>
\* The callbacks of MqttClientWrapper assign self.connected and put on the
\* queue; they hold no reference to the dashboard.
CallbackFrame == UNCHANGED gui_vars

\* ------------------------------------------------- network thread callbacks
\* on_connect(rc)
OnConnect ==
    /\ Alive /\ loop_running /\ Event
    /\ \E rc \in {0, 5} :
        /\ connected' = (rc = 0)
        /\ Enqueue(SysEvent(IF rc = 0 THEN "connected" ELSE "connect_failed"))
    /\ CallbackFrame
    /\ UNCHANGED <<loop_running, now>>

\* on_disconnect(rc)
OnDisconnect ==
    /\ Alive /\ loop_running /\ Event
    /\ connected' = FALSE
    /\ Enqueue(SysEvent("disconnected"))
    /\ CallbackFrame
    /\ UNCHANGED <<loop_running, now>>

\* json.loads(payload), or {"raw": payload} when it raises.
JsonLoads(p) == IF p.json THEN p.value ELSE RawDict

\* on_message(msg): delivered once subscribed (on_connect with rc = 0).
OnMessage ==
    /\ Alive /\ loop_running /\ connected /\ Event
    /\ \E p \in Payloads : Enqueue(JsonLoads(p))
    /\ CallbackFrame
    /\ UNCHANGED <<connected, loop_running, now>>

\* The wall clock advances by a second.
ClockTick ==
    /\ Alive /\ Event
    /\ now' = now + 1
    /\ UNCHANGED <<gui_vars, mqtt_queue, put_log, connected, loop_running>>

\* ---------------------------------------------------------- GUI thread
net_vars == <<connected, loop_running, now>>

\* MqttClientWrapper.publish(data), as called below: client.publish either
\* returns, or raises and the error is queued as a sys event.  What the broker
\* echoes back is delivered by OnMessage.

\* on_update() begins: simulate_sensor() overwrites temp and hum with random
\* values and publishes them.
SimulateSensor ==
    /\ pc = "idle"
    /\ TimerActive
    /\ \E t \in SimTemps, h \in SimHums :
        /\ temp' = PyNum(t)
        /\ hum' = PyNum(h)
    /\ \/ Event /\ Enqueue(SysEvent("publish_error"))
       \/ UNCHANGED <<mqtt_queue, put_log, events>>
    /\ pc' = "drain"
    /\ UNCHANGED <<net_vars, relay_on, lbl_temp, lbl_hum, relay_indicator,
                   times, temps, hums, db, list_logs, plotted, msg, exc,
                   get_log, closing, storage_failed>>

\* process_mqtt_queue(): the queue is empty, the while loop ends; on_update
\* goes on to update_plot(), which draws the temperature and humidity
\* histories, and returns.
DrainDone ==
    /\ pc = "drain"
    /\ Empty(mqtt_queue)
    /\ plotted' = <<temps, hums>>
    /\ pc' = "idle"
    /\ UNCHANGED <<net_vars, mqtt_queue, put_log, temp, hum, relay_on,
                   lbl_temp, lbl_hum, relay_indicator, times, temps, hums, db,
                   list_logs, msg, exc, get_log, closing, storage_failed,
                   events>>

\* msg = self.mqtt_queue.get_nowait()
Dequeue ==
    /\ pc = "drain"
    /\ ~Empty(mqtt_queue)
    /\ msg' = GetItem(mqtt_queue).item
    /\ get_log' = Append(get_log, GetItem(mqtt_queue))
    /\ mqtt_queue' = GetRest(mqtt_queue)
    /\ UNCHANGED <<put_log, events>>

\* A consumer that takes the button branch for sys dicts too.
IsButtonOrSys(m) == m.isdict /\ m.type \in {"button_pressed", "sys"}
\* The reading passes `t is not None and h is not None`.
BothPresent(m) == m.temperature # PyNone /\ m.humidity # PyNone
IsSensor(m) == m.isdict /\ m.type = "sensor"
IsButton(m) == m.isdict /\ m.type = "button_pressed"

\* A dequeued item that matches neither branch (not a dict, a dict of another
\* type such as "sys", a sensor dict lacking a value): nothing is done.
ProcessIgnored ==
    /\ Dequeue
    /\ LET m == GetItem(mqtt_queue).item IN
        /\ ~IsButton(m)
        /\ ~(IsSensor(m) /\ BothPresent(m))
    /\ UNCHANGED <<net_vars, temp, hum, relay_on, lbl_temp, lbl_hum,
                   relay_indicator, times, temps, hums, db, list_logs, plotted,
                   pc, exc, closing, storage_failed>>

\* A sensor dict whose temperature or humidity cannot be formatted with
\* :.1f: lines 226-229 run up to the format that raises.
ProcessSensorRaises ==
    /\ Dequeue
    /\ LET m == GetItem(mqtt_queue).item IN
        /\ IsSensor(m) /\ BothPresent(m)
        /\ ~(IsNumber(m.temperature) /\ IsNumber(m.humidity))
        /\ temp' = m.temperature
        /\ hum' = m.humidity
        /\ IF IsNumber(m.temperature)
           THEN /\ lbl_temp' = Fmt1(m.temperature)
                /\ exc' = Raised("ValueError", 229)
           ELSE /\ lbl_temp' = lbl_temp
                /\ exc' = Raised("ValueError", 228)
    /\ pc' = "raised"
    /\ UNCHANGED <<net_vars, relay_on, lbl_hum, relay_indicator, times, temps,
                   hums, db, list_logs, plotted, closing, storage_failed>>

\* A sensor dict with numeric temperature and humidity: lines 226-238.
ProcessSensor ==
    /\ Dequeue
    /\ LET m == GetItem(mqtt_queue).item
           t == m.temperature
           h == m.humidity
       IN
        /\ IsSensor(m) /\ BothPresent(m)
        /\ IsNumber(t) /\ IsNumber(h)
        /\ temp' = t
        /\ hum' = h
        /\ lbl_temp' = Fmt1(t)
        /\ lbl_hum' = Fmt1(h)
        /\ times' = DequeAppend(times, HMS(now))
        /\ temps' = DequeAppend(temps, t)
        /\ hums' = DequeAppend(hums, h)
        /\ IF HighTemp(t)
           THEN Log("High temperature", Fmt1(t), "")
           ELSE list_logs' = list_logs
        /\ relay_on' = AutoRelay(t, m)
        /\ relay_indicator' = Indicator(AutoRelay(t, m))
    /\ pc' = "insert"
    /\ UNCHANGED <<net_vars, db, plotted, exc, closing, storage_failed>>

\* self.db.insert(now, t, h, int(self.relay_on)) for the reading in msg: int()
\* raises on a relay_on that is no number (insert is then not called),
\* execute/commit may raise (they do on a closed connection), and otherwise
\* the row is stored.
DbInsert ==
    /\ pc = "insert"
    /\ \/ /\ IntRaises(relay_on)
          /\ exc' = Raised("ValueError", 240)
          /\ pc' = "raised"
          /\ db' = db
          /\ storage_failed' = storage_failed
       \/ /\ ~IntRaises(relay_on)
          /\ exc' = Raised("sqlite3.Error", 240)
          /\ pc' = "raised"
          /\ db' = db
          /\ storage_failed' = TRUE
       \/ /\ ~IntRaises(relay_on)
          /\ DbOpen
          /\ db' = Insert(db, YMDHMS(now), msg.temperature, msg.humidity,
                          IntOf(relay_on))
          /\ pc' = "drain"
          /\ exc' = exc
          /\ storage_failed' = storage_failed
    /\ UNCHANGED <<net_vars, mqtt_queue, put_log, temp, hum, relay_on,
                   lbl_temp, lbl_hum, relay_indicator, times, temps, hums,
                   list_logs, plotted, msg, get_log, closing, events>>

\* A button_pressed dict: lines 242-246.
ProcessButton ==
    /\ Dequeue
    /\ IsButton(GetItem(mqtt_queue).item)
    /\ relay_on' = Toggle(relay_on)
    /\ relay_indicator' = Indicator(Toggle(relay_on))
    /\ Log("Button press received", 0, OnOff(Toggle(relay_on)))
    /\ UNCHANGED <<net_vars, temp, hum, lbl_temp, lbl_hum, times, temps, hums,
                   db, plotted, pc, exc, closing, storage_failed>>

\* An exception left on_update.  What PyQt5 does with an exception raised in
\* a slot depends on its version: 5.5 and later abort the process, earlier
\* ones report it and return to the event loop.
SlotAborts ==
    /\ pc = "raised"
    /\ pc' = "dead"
    /\ UNCHANGED <<net_vars, mqtt_queue, put_log, temp, hum, relay_on,
                   lbl_temp, lbl_hum, relay_indicator, times, temps, hums, db,
                   list_logs, plotted, msg, exc, get_log, closing,
                   storage_failed, events>>

SlotReturns ==
    /\ pc = "raised"
    /\ pc' = "idle"
    /\ exc' = NoExc
    /\ UNCHANGED <<net_vars, mqtt_queue, put_log, temp, hum, relay_on,
                   lbl_temp, lbl_hum, relay_indicator, times, temps, hums, db,
                   list_logs, plotted, msg, get_log, closing, storage_failed,
                   events>>

\* closeEvent(event), entered between two timer slots:
\* self.update_timer.stop()
CloseTimerStop ==
    /\ pc = "idle"
    /\ Alive /\ closing = <<>> /\ Event
    /\ closing' = <<"update_timer.stop">>
    /\ pc' = "close"
    /\ UNCHANGED <<net_vars, mqtt_queue, put_log, temp, hum, relay_on,
                   lbl_temp, lbl_hum, relay_indicator, times, temps, hums, db,
                   list_logs, plotted, msg, exc, get_log, storage_failed>>

\* self.mqtt.stop(): loop_stop() ends the network thread; disconnect() then
\* writes the DISCONNECT packet from the calling thread, which runs
\* on_disconnect there, or finds no socket, or raises (which stop() swallows).
CloseMqttStop ==
    /\ pc = "close"
    /\ closing = <<"update_timer.stop">>
    /\ closing' = Append(closing, "mqtt.stop")
    /\ loop_running' = FALSE
    /\ \/ /\ connected
          /\ connected' = FALSE
          /\ Enqueue(SysEvent("disconnected"))
       \/ UNCHANGED <<connected, mqtt_queue, put_log>>
    /\ UNCHANGED <<now, temp, hum, relay_on, lbl_temp, lbl_hum,
                   relay_indicator, times, temps, hums, db, list_logs, plotted,
                   pc, msg, exc, get_log, storage_failed, events>>

\* self.db.close(); event.accept(): the window closes and the application
\* quits.
CloseDb ==
    /\ pc = "close"
    /\ closing = <<"update_timer.stop", "mqtt.stop">>
    /\ closing' = Append(closing, "db.close")
    /\ pc' = "idle"
    /\ UNCHANGED <<net_vars, mqtt_queue, put_log, temp, hum, relay_on,
                   lbl_temp, lbl_hum, relay_indicator, times, temps, hums, db,
                   list_logs, plotted, msg, exc, get_log, storage_failed,
                   events>>

Next ==
    \/ OnConnect
    \/ OnDisconnect
    \/ OnMessage
    \/ ClockTick
    \/ SimulateSensor
    \/ DrainDone
    \/ ProcessIgnored
    \/ ProcessSensorRaises
    \/ ProcessSensor
    \/ DbInsert
    \/ ProcessButton
    \/ SlotAborts
    \/ SlotReturns
    \/ CloseTimerStop
    \/ CloseMqttStop
    \/ CloseDb

Spec == Init /\ [][Next]_vars

\* The steps of the timer slot.  While the event loop runs, update_timer
\* fires every 5 s and a slot that has begun runs on: these steps are taken
\* whenever they stay enabled.
GuiNext ==
    \/ SimulateSensor
    \/ DrainDone
    \/ ProcessIgnored
    \/ ProcessSensorRaises
    \/ ProcessSensor
    \/ DbInsert
    \/ ProcessButton
    \/ SlotAborts
    \/ SlotReturns

FairSpec == Spec /\ WF_vars(GuiNext)

\* ------------------------------------------------- DataManager on its own
\* DataManager exercised apart from the dashboard: the table starts empty or
\* with a row of an earlier run, and insert is called with any timestamp,
\* reading and relay status.
non_db_vars == <<mqtt_queue, connected, loop_running, temp, hum, relay_on,
                 lbl_temp, lbl_hum, relay_indicator, times, temps, hums,
                 list_logs, plotted, now, pc, msg, exc, put_log, get_log,
                 closing, storage_failed, events>>
DbTimestamps == {<<1, 0>>, <<1, 1>>}

DbInit == InitDashboard /\ db \in PriorTables

DmInsert ==
    /\ Len(db) < MaxRows
    /\ \E ts \in DbTimestamps, r \in Readings, relay_status \in {0, 1} :
        db' = Insert(db, ts, PyNum(r[1]), PyNum(r[2]), relay_status)
    /\ UNCHANGED non_db_vars

DbNext == DmInsert

DbSpec == DbInit /\ [][DbNext]_vars

\* ================================================================== claims
\* A sensor dict that passes line 225 and whose temperature and humidity are
\* numbers, as the formats of lines 228-229 require: an accepted reading.
AcceptedReading(m) ==
    /\ IsSensor(m) /\ BothPresent(m)
    /\ IsNumber(m.temperature) /\ IsNumber(m.humidity)

\* The positions in get_log of the accepted readings, and the largest of a
\* non-empty set of positions.
AcceptedIdx == {i \in DOMAIN get_log : AcceptedReading(get_log[i].item)}
MaxOf(S) == CHOOSE x \in S : \A y \in S : y <= x

\* C1: whatever the interleaving of put() calls from the network thread
\* (on_connect, on_disconnect, on_message) and the GUI thread (publish errors)
\* with the consumer's get_nowait() calls, the items dequeued so far followed
\* by the items still queued are exactly the items put, in put order: nothing
\* is lost, duplicated or reordered.
C1_FifoExactlyOnce ==
    /\ get_log \o mqtt_queue = put_log
    /\ \A i \in DOMAIN put_log : put_log[i].id = i

\* Items put by on_connect, by publish (GUI thread) and by on_message were
\* dequeued, and on_disconnect put a fourth during the drain.
C1_Witness ==
    /\ pc = "drain"
    /\ Len(get_log) = 3
    /\ Len(mqtt_queue) = 1
    /\ get_log[1].item.event = "connected"
    /\ get_log[2].item.event = "publish_error"
    /\ get_log[3].item.type = "sensor"
    /\ mqtt_queue[1].item.event = "disconnected"

\* C2: when the last dequeued item is an accepted reading with temperature t,
\* the relay is ON iff t >= TEMP_THRESHOLD or the reading's manual_override is
\* truthy, whatever the relay state was before.
C2_RelayFromReading ==
    (get_log # <<>> /\ AcceptedReading(get_log[Len(get_log)].item)) =>
        LET m == get_log[Len(get_log)].item IN
        Truthy(relay_on) <=>
            (m.temperature.v >= TEMP_THRESHOLD \/ Truthy(GetOverride(m)))

\* A button press switched the relay ON, then a reading below the threshold
\* switched it OFF.
C2_Witness ==
    /\ Len(get_log) >= 2
    /\ AcceptedIdx = {Len(get_log)}
    /\ IsButton(get_log[Len(get_log) - 1].item)
    /\ get_log[Len(get_log)].item.temperature.v < TEMP_THRESHOLD
    /\ ~Truthy(relay_on)
    /\ pc = "insert"

C4_ButtonParity ==
    LET base == IF AcceptedIdx = {} THEN 0 ELSE MaxOf(AcceptedIdx)
        m == get_log[base].item
        start == IF base = 0 THEN FALSE
                 ELSE m.temperature.v >= TEMP_THRESHOLD
                      \/ Truthy(GetOverride(m))
        k == Cardinality({i \in DOMAIN get_log :
                             i > base /\ IsButton(get_log[i].item)})
    IN  Truthy(relay_on) <=> (start # (k % 2 = 1))

\* A reading at the threshold switched the relay ON, one button press
\* switched it OFF against the temperature, a second one ON again.
C4_Witness ==
    /\ Len(get_log) >= 3
    /\ AcceptedIdx = {Len(get_log) - 2}
    /\ get_log[Len(get_log) - 2].item.temperature.v >= TEMP_THRESHOLD
    /\ IsButton(get_log[Len(get_log) - 1].item)
    /\ IsButton(get_log[Len(get_log)].item)
    /\ Truthy(relay_on)
    /\ temp = get_log[Len(get_log) - 2].item.temperature

\* C5: the three history deques never hold more than max_points entries, and
\* the temperatures and humidities they hold are those of the max_points most
\* recently accepted readings, oldest first.
C5_HistoryBounded ==
    LET IsAcc(e) == AcceptedReading(e.item)
        acc == SelectSeq(get_log, IsAcc)
        n == IF Len(acc) > max_points THEN max_points ELSE Len(acc)
        recent == SubSeq(acc, Len(acc) - n + 1, Len(acc))
    IN  /\ Len(times) <= max_points
        /\ Len(times) = n /\ Len(temps) = n /\ Len(hums) = n
        /\ \A i \in 1..n : /\ temps[i] = recent[i].item.temperature
                           /\ hums[i] = recent[i].item.humidity

\* More than max_points readings were accepted, the evicted one differing
\* from the newest.
C5_Witness ==
    /\ Cardinality(AcceptedIdx) > max_points
    /\ Len(temps) = max_points
    /\ \E i \in AcceptedIdx :
        /\ \A j \in AcceptedIdx : i <= j
        /\ get_log[i].item.temperature # temps[1]
    /\ temps[1] # temps[Len(temps)]

\* The rows this run added: rows of an earlier run carry an earlier date.
NewRows == SelectSeq(db, LAMBDA r : r.timestamp[1] >= 1)

\* C6 as claimed: when the insert for an accepted reading returns, exactly one
\* row has been added, and it carries the time of the reading's history
\* entry, the reading's temperature and humidity and the relay state computed
\* for that reading.
C6_RecordMatchesReading ==
    [][(pc = "insert" /\ pc' = "drain") =>
        /\ Len(db') = Len(db) + 1
        /\ LET r == db'[Len(db')] IN
            /\ r.timestamp[2] = times[Len(times)]
            /\ r.temperature = msg.temperature
            /\ r.humidity = msg.humidity
            /\ r.relay_status =
                 (IF msg.temperature.v >= TEMP_THRESHOLD
                     \/ Truthy(GetOverride(msg)) THEN 1 ELSE 0)]_vars

\* C7 as claimed: an insert that fails (the step that ends the insert and
\* leaves the table as it was, the relay state being a number) writes a
\* notice to the log and goes on with the drain loop.
C7_StorageFailureContained ==
    [][(pc = "insert" /\ pc' # "insert" /\ db' = db /\ ~IntRaises(relay_on)) =>
        /\ pc' = "drain"
        /\ Len(list_logs') = Len(list_logs) + 1]_vars

\* C8: when the insert for a reading has raised a storage error, the reading
\* has been applied all the same: temp and hum are its values, the newest
\* history entry is the reading, the relay is ON iff its temperature is at or
\* above the threshold or it carries a truthy override; and the table holds
\* no row for it (fewer new rows than accepted readings).
C8_FailedInsertStillApplied ==
    exc.type = "sqlite3.Error" =>
        /\ AcceptedReading(msg)
        /\ get_log[Len(get_log)].item = msg
        /\ temp = msg.temperature
        /\ hum = msg.humidity
        /\ lbl_temp = Fmt1(msg.temperature)
        /\ lbl_hum = Fmt1(msg.humidity)
        /\ temps # <<>> /\ temps[Len(temps)] = msg.temperature
        /\ hums # <<>> /\ hums[Len(hums)] = msg.humidity
        /\ Len(times) = Len(temps)
        /\ Truthy(relay_on) <=>
             (msg.temperature.v >= TEMP_THRESHOLD \/ Truthy(GetOverride(msg)))
        /\ relay_indicator = (IF Truthy(relay_on) THEN "green" ELSE "gray")
        /\ Len(NewRows) < Cardinality(AcceptedIdx)

\* The insert of the second of two readings failed, the first one's row being
\* stored; the history holds both.
C8_Witness ==
    /\ exc.type = "sqlite3.Error"
    /\ pc = "raised"
    /\ Cardinality(AcceptedIdx) = 2
    /\ Len(NewRows) = 1
    /\ Len(temps) = 2
    /\ temps[1] # temps[2]

\* C9 as claimed: every sys event that was dequeued has an entry in the log
\* that names it.
C9_SysEventNoticed ==
    \A i \in DOMAIN get_log :
        get_log[i].item.type = "sys" =>
            \E j \in DOMAIN list_logs : list_logs[j].text = get_log[i].item.event

\* C10 as claimed: no payload makes an exception leave the timer slot: no
\* ValueError of a format (lines 228-229) or of int() (line 240) propagates.
C10_PayloadNeverRaises ==
    pc = "raised" => exc.type # "ValueError"

C12_EnqueueAlwaysEnabled ==
    /\ (Alive /\ loop_running /\ events < MaxEvents) =>
          ENABLED (OnDisconnect
                   /\ mqtt_queue' =
                        mqtt_queue \o <<Numbered(SysEvent("disconnected"))>>)
    /\ (Alive /\ loop_running /\ connected /\ events < MaxEvents) =>
          ENABLED (OnMessage
                   /\ Len(mqtt_queue') = Len(mqtt_queue) + 1
                   /\ SubSeq(mqtt_queue', 1, Len(mqtt_queue)) = mqtt_queue)

\* The GUI thread is inside db.insert for a reading, an item that arrived
\* after that reading was dequeued is waiting, and a further callback can run.
C12_Witness ==
    /\ pc = "insert"
    /\ mqtt_queue # <<>>
    /\ get_log # <<>>
    /\ AcceptedReading(get_log[Len(get_log)].item)
    /\ Alive /\ loop_running /\ connected /\ events < MaxEvents

\* C13: a step of a callback of the network thread (on_connect,
\* on_disconnect, on_message) leaves the relay state, the three histories and
\* the table as they are and dequeues nothing: it adds one item to the queue.
\* Conversely every step that changes the relay state, a history or the table
\* is a step of process_mqtt_queue on the GUI thread.
C13_ControlLoopOnlyWriter ==
    [][/\ (OnConnect \/ OnDisconnect \/ OnMessage) =>
            /\ UNCHANGED <<relay_on, relay_indicator, times, temps, hums, db>>
            /\ get_log' = get_log
            /\ Len(mqtt_queue') = Len(mqtt_queue) + 1
       /\ (<<relay_on, times, temps, hums, db>>' #
             <<relay_on, times, temps, hums, db>>) =>
            pc \in {"drain", "insert"}]_vars

\* A tick processed a reading that switched the relay ON and stored its row,
\* and drew the plot; after the tick a callback put an item on the queue, the
\* relay, the history and the table being as the tick left them.
C13_Witness ==
    /\ pc = "idle"
    /\ temps # <<>>
    /\ plotted = <<temps, hums>>
    /\ Len(NewRows) = Len(temps)
    /\ Truthy(relay_on)
    /\ Len(mqtt_queue) = 1
    /\ mqtt_queue[1].item.event = "disconnected"
    /\ closing = <<>>

\* C14: whatever rows were inserted into an empty or an older table, the
\* rows of the table carry strictly increasing ids in insertion order, and for every limit get_last_records(limit) returns
\* min(limit, number of rows) records: the most recently inserted rows, the
\* newest first.
C14_RecentNewestFirst ==
    /\ \A i, j \in DOMAIN db : i < j => db[i].id < db[j].id
    /\ \A limit \in 0..(Len(db) + 1) :
        LET records == GetLastRecords(db, limit)
            n == IF limit < Len(db) THEN limit ELSE Len(db)
        IN  /\ Len(records) = n
            /\ \A k \in 1..n : records[k] = Columns(db[Len(db) + 1 - k])

\* The table holds a row of an earlier run and two rows of this run with
\* different temperatures; get_last_records(2) returns the two new rows, the
\* later one first.
C14_Witness ==
    /\ Len(db) = 3
    /\ Len(NewRows) = 2
    /\ db[2].temperature # db[3].temperature
    /\ Len(GetLastRecords(db, 2)) = 2
    /\ GetLastRecords(db, 2)[1][2] = db[3].temperature
    /\ GetLastRecords(db, 2)[2][2] = db[2].temperature

\* C15 as claimed: between two ticks the current temperature and humidity
\* (self.temp, self.hum) and the labels that show them are those of the most
\* recently dequeued accepted reading, or the initial 24.0 and 50.0 if there
\* is none: a synthetic reading has no effect but through the queue.
C15_CurrentFromQueueOnly ==
    pc = "idle" =>
        LET base == IF AcceptedIdx = {} THEN 0 ELSE MaxOf(AcceptedIdx)
            t == IF base = 0 THEN PyNum(2400)
                 ELSE get_log[base].item.temperature
            h == IF base = 0 THEN PyNum(5000)
                 ELSE get_log[base].item.humidity
        IN  /\ temp = t
            /\ hum = h
            /\ lbl_temp = Fmt1(t)
            /\ lbl_hum = Fmt1(h)

\* C16: the histories and the table change only while an accepted reading is
\* processed (the step that dequeues it appends to the histories, the insert
\* that follows adds the row).  A step that dequeues anything else (a
\* button_pressed dict, a sys dict, a dict of no known type, a value that is
\* no dict, a sensor dict lacking a value) leaves the histories and the table
\* unchanged, and changes the relay state iff the item is a button press.
C16_OnlyReadingsRecorded ==
    [][/\ (get_log' # get_log /\ ~AcceptedReading(msg')) =>
            /\ UNCHANGED <<times, temps, hums, db>>
            /\ (Truthy(relay_on') # Truthy(relay_on)) <=>
                  (msg'.isdict /\ msg'.type = "button_pressed")
       /\ (<<times, temps, hums>>' # <<times, temps, hums>>) =>
            (get_log' # get_log /\ AcceptedReading(msg'))
       /\ (db' # db) => (pc = "insert" /\ AcceptedReading(msg))]_vars

\* A sys event, an accepted reading, a sensor dict without temperature and a
\* button press were dequeued in this order: one history entry, one new row,
\* and the relay ON by the button press alone.
C16_Witness ==
    /\ Len(get_log) = 4
    /\ get_log[1].item.type = "sys"
    /\ AcceptedReading(get_log[2].item)
    /\ ~HighTemp(get_log[2].item.temperature)
    /\ IsSensor(get_log[3].item) /\ get_log[3].item.temperature = PyNone
    /\ get_log[4].item.type = "button_pressed"
    /\ Len(temps) = 1
    /\ Len(NewRows) = 1
    /\ Truthy(relay_on)

\* C17 as claimed: while no insert has failed in storage, whenever the GUI
\* thread is not between a reading's history append and its insert, with k
\* the number of accepted readings dequeued the table holds exactly k rows of
\* this run, the histories hold min(k, max_points) entries, and these carry,
\* in order, the temperature and humidity of the last min(k, max_points) rows.
C17_RecordsMatchHistory ==
    (~storage_failed /\ pc # "insert") =>
        LET k == Cardinality(AcceptedIdx)
            n == IF k < max_points THEN k ELSE max_points
        IN  /\ Len(NewRows) = k
            /\ Len(times) = n /\ Len(temps) = n /\ Len(hums) = n
            /\ \A i \in 1..n :
                /\ temps[i] = NewRows[k - n + i].temperature
                /\ hums[i] = NewRows[k - n + i].humidity

\* C18: the step that processes an accepted reading with temperature t adds
\* the entry "High temperature" with t formatted to the log iff
\* t >= TEMP_THRESHOLD, and adds nothing else; when it adds the warning the
\* relay is ON after the step, and when the relay is ON after the step
\* without a warning the reading's manual_override is truthy.
C18_WarningIffHigh ==
    [][(get_log' # get_log /\ AcceptedReading(msg')) =>
        LET t == msg'.temperature
            warned == /\ Len(list_logs') = Len(list_logs) + 1
                      /\ list_logs'[Len(list_logs')].text = "High temperature"
                      /\ list_logs'[Len(list_logs')].value = Fmt1(t)
        IN  /\ warned <=> t.v >= TEMP_THRESHOLD
            /\ ~warned => list_logs' = list_logs
            /\ warned => Truthy(relay_on')
            /\ (Truthy(relay_on') /\ ~warned) => Truthy(GetOverride(msg'))]_vars

\* A reading below the threshold with manual_override true left the relay ON
\* without a warning (its row says so), and a reading at the threshold has
\* just written the only warning of the log.
C18_Witness ==
    /\ pc = "insert"
    /\ Cardinality(AcceptedIdx) = 2
    /\ msg.temperature.v = TEMP_THRESHOLD
    /\ Len(list_logs) = 1
    /\ list_logs[1].text = "High temperature"
    /\ list_logs[1].value = 300
    /\ Truthy(relay_on)
    /\ Len(NewRows) = 1
    /\ NewRows[1].temperature.v < TEMP_THRESHOLD
    /\ NewRows[1].relay_status = 1

\* C19: closeEvent stops the timer first, then the transport, then closes
\* the database: the calls made so far are always a prefix of that order, and
\* the network loop is stopped before the database is closed.  From the
\* moment the timer is stopped no timer slot runs: nothing is dequeued, no
\* row is inserted, the relay, the histories and the plot stay as they are,
\* and the GUI thread is never at an insert.
C19_ShutdownOrdered ==
    /\ [](\E n \in 0..3 :
            closing = SubSeq(<<"update_timer.stop", "mqtt.stop", "db.close">>,
                             1, n))
    /\ [](Len(closing) >= 2 => ~loop_running)
    /\ [](closing # <<>> => pc \in {"close", "idle"})
    /\ [][closing # <<>> =>
            UNCHANGED <<get_log, db, relay_on, times, temps, hums, temp, hum,
                        plotted, list_logs>>]_vars

\* The window was closed after a tick that stored a reading: the three calls
\* were made, the network loop is stopped, and an item that arrived after the
\* last tick is left on the queue.
C19_Witness ==
    /\ Len(closing) = 3
    /\ pc = "idle"
    /\ ~loop_running
    /\ Len(NewRows) >= 1
    /\ plotted = <<temps, hums>>
    /\ temps # <<>>
    /\ mqtt_queue # <<>>

\* C20: in every state (between two messages of a drain, after a step of
\* processing raised at line 228, 229 or 240, when the plot is drawn) the
\* three histories have the same length, entry i of temps and entry i of hums
\* are the temperature and the humidity of one reading, the entries being the
\* most recently accepted readings, oldest first; and what update_plot drew
\* were two sequences of the same length whose entries pair up in the same way.
C20_HistoriesAligned ==
    LET IsAcc(e) == AcceptedReading(e.item)
        acc == SelectSeq(get_log, IsAcc)
        n == Len(temps)
    IN  /\ Len(times) = n
        /\ Len(hums) = n
        /\ n <= Len(acc)
        /\ \A i \in 1..n :
            /\ temps[i] = acc[Len(acc) - n + i].item.temperature
            /\ hums[i] = acc[Len(acc) - n + i].item.humidity
        /\ Len(plotted[1]) = Len(plotted[2])
        /\ \A i \in DOMAIN plotted[1] : \E j \in DOMAIN acc :
            /\ plotted[1][i] = acc[j].item.temperature
            /\ plotted[2][i] = acc[j].item.humidity

\* Two readings with different temperatures and humidities were accepted,
\* then a reading whose humidity is a string raised at line 229, after its
\* temperature was shown: the histories hold the two readings, aligned.
C20_Witness ==
    /\ pc = "raised"
    /\ exc = Raised("ValueError", 229)
    /\ Len(times) = 2 /\ Len(temps) = 2 /\ Len(hums) = 2
    /\ temps[1] # temps[2]
    /\ hums[1] # hums[2]
    /\ temp # temps[2]

====
